---- MODULE Spec2Model ----
(***************************************************************************)
(* Queue engine of the distributed task queue: the durable job rows        *)
(* (Postgres through Prisma), the coordination keys of one queue (Redis:   *)
(* waiting, processing, delayed, dlq, poison), the worker lanes, the       *)
(* scheduler and the intake routes.  Every await of the TypeScript code    *)
(* is one step of the process that executes it; a Redis Lua script is one  *)
(* step; a row update and the history row written right after it are one   *)
(* step, except in processJob, where the handler is invoked between them.  *)
(*                                                                         *)
(* Instants are the milliseconds of Date.now(), counted from the start of  *)
(* a run; the delays of the environment are given in the same unit.  A     *)
(* waiting score weight + ts is kept as the pair [w, t] that stands for    *)
(* w * 1e13 + t: all instants of the model are below 1e13, so comparing    *)
(* pairs is comparing the numbers.  Job ids are integers; their order      *)
(* stands for the lexicographic order of the uuids.                        *)
(*                                                                         *)
(* cancelled, enqueuedAt, failures and thrown record what has happened;    *)
(* no step of the program reads them.                                      *)
(***************************************************************************)
EXTENDS Integers, Sequences, FiniteSets, TLC

\* ---------------------------------------------------------------- bounds
MaxJobs == 1        \* jobs created while intake races the lanes
MaxRetryCalls == 1  \* retry requests accepted while intake races the lanes
MaxMaxRetries == 1  \* largest maxRetries of a job that intake races the lanes for
MaxOrderJobs == 3   \* jobs created when the dequeue order is observed
MaxOrderTime == 1   \* last instant at which a job is enqueued for the dequeue order
MaxBudget == 4      \* largest maxRetries of a job that is retried with backoff
MaxRetryTime == 7   \* last instant of a run of retries with backoff
MaxLeaseTime == 3   \* last instant of a run in which leases expire
MaxLeaseBudget == 2 \* largest maxRetries of a job whose lease expires
MaxManualRetries == 2 \* retry requests accepted in a run of manual retries
MaxManualTime == 2  \* last instant of a run of manual retries
MaxIdemJobs == 2    \* ids drawn for requests that carry an idempotency key
MaxIdemTime == 1    \* last instant of a run of such requests
MaxSchedTime == 2   \* last instant of a run of scheduled jobs
MaxLiveTime == 2    \* last instant of a run to completion
MaxCrashTime == 3   \* last instant of a run in which a worker is killed
MaxCrashBudget == 1 \* largest maxRetries of a job whose worker is killed
MaxDrainJobs == 2   \* jobs created before a worker is stopped
MaxDrainTime == 4   \* last instant of a run in which a worker is stopped

\* stop(): const maxWait = 30000, in units of 10 s
maxWait == 3
MaxTwinTime == 3    \* last instant of a run with two schedulers
MaxFaultTime == 3   \* last instant of a run in which a call of the store fails
MaxOrphanTime == 3  \* last instant of a run with completions from outside
MaxOutageTime == 1  \* last instant at which the durable store is unavailable
MaxBlackoutTime == 3 \* last instant of a run in which the durable store is unavailable
MaxRequeueJobs == 2 \* jobs created in a run in which ids are enqueued again
MaxRequeueTime == 1 \* last instant of such a run
MaxBackoffBase == 2 \* largest RETRY_BASE_DELAY_MS of a deployment whose delays are observed
MaxBackoffBudget == 3 \* maxRetries of the job whose delays are observed
MaxBackoffTime == 14 \* last instant of a run in which the delays are observed

Lanes == {1, 2}
Clients == {1, 2}
Solo == {1}
Scheds == {1, 2}

Null == -1

VARIABLES
    now,        \* Date.now()
    config,     \* getConfig(): the environment of the processes
    rows,       \* table job: id -> row
    history,    \* table jobHistory: id -> sequence of [status, message]
    waiting,    \* queue:Q:waiting, sorted set: id -> score
    processing, \* queue:Q:processing, set of ids
    delayed,    \* queue:Q:delayed, sorted set: id -> instant
    dlq,        \* queue:Q:dlq, list of ids, head first
    poison,     \* poison:<id>, sorted set of failure instants
    lane,       \* worker lanes: position in pollLoop/processJob/handleFailure
    client,     \* intake requests in flight
    sched,      \* scheduler ticks in flight
    retryCalls, \* number of retry requests accepted so far
    cancelled,  \* ids whose cancel has succeeded and that were not retried since
    enqueuedAt, \* id -> instant of its last enqueueJob
    failures,   \* id -> instants at which trackFailure recorded a failure
    thrown,     \* ids whose handler has thrown
    worker      \* the Worker object of the lanes: its flags and its stop() call

vars == <<now, config, rows, history, waiting, processing, delayed, dlq, poison,
          lane, client, sched, retryCalls, cancelled, enqueuedAt, failures,
          thrown, worker>>

store == <<rows, history>>
redis == <<waiting, processing, delayed, dlq, poison>>
audit == <<cancelled, enqueuedAt, failures, thrown>>

\* ------------------------------------------------------- coordination store
PRIORITY_WEIGHTS == [HIGH |-> 0, MEDIUM |-> 1, LOW |-> 2]
Priorities == {"HIGH", "MEDIUM", "LOW"}

\* a score without the priority weight, and one without the instant
calculateScoreNoWeight(priority, ts) == [w |-> 0, t |-> ts]
calculateScoreNoTime(priority, ts) == [w |-> PRIORITY_WEIGHTS[priority], t |-> 0]

calculateScore(priority, ts) == [w |-> PRIORITY_WEIGHTS[priority], t |-> ts]

\* numeric order of two scores
ScoreLess(a, b) == a.w < b.w \/ (a.w = b.w /\ a.t < b.t)

\* order of a sorted set: by score, equal scores by member
Before(z, m, k) == ScoreLess(z[m], z[k]) \/ (z[m] = z[k] /\ m < k)

ZADD(z, m, s) == [x \in DOMAIN z \cup {m} |-> IF x = m THEN s ELSE z[x]]
ZREM(z, m) == [x \in DOMAIN z \ {m} |-> z[x]]
ZMIN(z) == CHOOSE m \in DOMAIN z : \A k \in DOMAIN z \ {m} : Before(z, m, k)

\* LPUSH and LREM key 1 member on a list kept head first
LPUSH(l, m) == <<m>> \o l
FirstIndex(l, m) == CHOOSE i \in 1..Len(l) : l[i] = m /\ \A k \in 1..(i - 1) : l[k] # m
LREM1(l, m) ==
    IF \E i \in 1..Len(l) : l[i] = m
    THEN LET i == FirstIndex(l, m) IN SubSeq(l, 1, i - 1) \o SubSeq(l, i + 1, Len(l))
    ELSE l

InList(l, m) == \E i \in 1..Len(l) : l[i] = m

\* --------------------------------------------------------------- processes
IdleLane == [pc |-> "poll", job |-> Null, startTime |-> Null, attempts |-> Null,
             maxRetries |-> Null, isPoisonPill |-> FALSE, error |-> Null]
NoBody == [priority |-> "MEDIUM", maxRetries |-> Null, scheduledAt |-> Null,
           idempotencyKey |-> Null, type |-> "echo"]
IdleClient == [pc |-> "idle", id |-> Null, body |-> NoBody, res |-> "none"]
IdleSched == [pc |-> "idle", now |-> Null, jobs |-> {}, job |-> Null]
IdleWorker == [running |-> TRUE, draining |-> FALSE, stop |-> "none", start |-> Null]

workerId(l) == l

\* an update that also puts attempts back to 0 when data does not name it
UpdateResetting(j, data) ==
    [rows EXCEPT ![j] = [f \in DOMAIN @ |-> IF f \in DOMAIN data THEN data[f]
                                            ELSE IF f = "attempts" THEN 0 ELSE @[f]]]

\* prisma.job.update({ where: { id }, data }): the fields of data overwrite the row
Update(j, data) ==
    [rows EXCEPT ![j] = [f \in DOMAIN @ |-> IF f \in DOMAIN data THEN data[f] ELSE @[f]]]

\* prisma.jobHistory.create
HistoryCreate(j, status, message) ==
    [history EXCEPT ![j] = Append(@, [status |-> status, message |-> message])]

Pow2(n) == IF n <= 0 THEN 1 ELSE 2 ^ n

\* f with the instant t appended to the record of j
Record(f, j, t) == (j :> (IF j \in DOMAIN f THEN Append(f[j], t) ELSE <<t>>)) @@ f

\* the state of a fresh deployment whose environment is env
Start(env) ==
    /\ now = 0
    /\ config = env
    /\ rows = <<>>
    /\ history = <<>>
    /\ waiting = <<>>
    /\ processing = {}
    /\ delayed = <<>>
    /\ dlq = <<>>
    /\ poison = <<>>
    /\ lane = [l \in Lanes |-> IdleLane]
    /\ client = [c \in Clients |-> IdleClient]
    /\ sched = [s \in Scheds |-> IdleSched]
    /\ retryCalls = 0
    /\ cancelled = {}
    /\ enqueuedAt = <<>>
    /\ failures = <<>>
    /\ thrown = {}
    /\ worker = IdleWorker

\* ------------------------------------------------------------------ worker
\* a script that reads the head of waiting and adds it to processing, without ZPOPMIN
DEQUEUE_PEEK(w, p) ==
    IF DOMAIN w = {} THEN [jobId |-> Null, waiting |-> w, processing |-> p]
    ELSE [jobId |-> ZMIN(w), waiting |-> w, processing |-> p \cup {ZMIN(w)}]

\* DEQUEUE_LUA: ZPOPMIN waiting 1; if it returned a member, SADD processing member
DEQUEUE_LUA(w, p) ==
    IF DOMAIN w = {} THEN [jobId |-> Null, waiting |-> w, processing |-> p]
    ELSE [jobId |-> ZMIN(w), waiting |-> ZREM(w, ZMIN(w)), processing |-> p \cup {ZMIN(w)}]

\* a loop test that does not look at the draining flag
PollingWhileRunning == worker.running

\* while (this.running && !this.draining)
Polling == worker.running /\ ~worker.draining

\* pollLoop: the loop test passes and the dequeue call is sent
pollLoop(l) ==
    /\ lane[l].pc = "poll"
    /\ Polling
    /\ lane' = [lane EXCEPT ![l].pc = "dequeue"]
    /\ UNCHANGED <<now, config, worker, store, redis, client, sched, retryCalls, audit>>

\* pollLoop: the loop test fails and the lane returns
pollExit(l) ==
    /\ lane[l].pc = "poll"
    /\ ~Polling
    /\ lane' = [lane EXCEPT ![l].pc = "stopped"]
    /\ UNCHANGED <<now, config, worker, store, redis, client, sched, retryCalls, audit>>

\* dequeueJob in pollLoop: the script in one step, of a call that was sent or
\* together with the loop test before it, then the entry of processJob; on an
\* empty result the lane sleeps and polls again
dequeueJob(l) ==
    /\ lane[l].pc = "dequeue" \/ (lane[l].pc = "poll" /\ Polling)
    /\ LET result == DEQUEUE_LUA(waiting, processing) IN
       /\ waiting' = result.waiting
       /\ processing' = result.processing
       /\ lane' = IF result.jobId = Null THEN [lane EXCEPT ![l].pc = "poll"]
                  ELSE [lane EXCEPT ![l] = [IdleLane EXCEPT !.pc = "claim",
                                                           !.job = result.jobId,
                                                           !.startTime = now]]
    /\ UNCHANGED <<now, config, worker, store, delayed, dlq, poison, client, sched, retryCalls,
                   audit>>

\* dequeueJob in pollLoop: redis.eval rejects.  pollLoop has no catch, so its
\* promise rejects, and with it Promise.all in start() and main(), whose catch
\* calls process.exit(1): every lane of the worker ends with the process.
dequeueJobThrows(l) ==
    /\ lane[l].pc = "dequeue"
    /\ lane' = [k \in Lanes |-> [lane[k] EXCEPT !.pc = "exited"]]
    /\ UNCHANGED <<now, config, worker, store, redis, client, sched, retryCalls, audit>>

\* a claim that takes a row of any status
ClaimAny(status) == TRUE

ClaimEligible(status) == status \in {"PENDING", "FAILED"}

\* processJob: the conditional update that locks the row.  prisma.job.update
\* rejects with RecordNotFound when no row matches the where clause, so an
\* ineligible row sends the lane to the catch block, that is to handleFailure.
claimJob(l) ==
    /\ lane[l].pc = "claim"
    /\ LET j == lane[l].job IN
       IF j \in DOMAIN rows /\ ClaimEligible(rows[j].status)
       THEN /\ rows' = Update(j, [status |-> "PROCESSING", lockedBy |-> workerId(l),
                                  lockedAt |-> lane[l].startTime,
                                  attempts |-> rows[j].attempts + 1])
            /\ lane' = [lane EXCEPT ![l].pc = "history"]
       ELSE /\ lane' = [lane EXCEPT ![l].pc = "fail", ![l].error = "RecordNotFound"]
            /\ UNCHANGED rows
    /\ UNCHANGED <<now, config, worker, history, redis, client, sched, retryCalls, audit>>

\* processJob: the PROCESSING history row, then the handler is invoked
invokeHandler(l) ==
    /\ lane[l].pc = "history"
    /\ history' = HistoryCreate(lane[l].job, "PROCESSING", "Processing attempt")
    /\ lane' = [lane EXCEPT ![l].pc = "handler"]
    /\ UNCHANGED <<now, config, worker, rows, redis, client, sched, retryCalls, audit>>

\* the registered handlers: echo returns, always-fail throws, a handler
\* registered by the user does either
MayReturn(type) == type \in {"echo", "custom"}
MayThrow(type) == type \in {"always-fail", "custom"}

handlerReturns(l) ==
    /\ lane[l].pc = "handler"
    /\ MayReturn(rows[lane[l].job].type)
    /\ lane' = [lane EXCEPT ![l].pc = "complete"]
    /\ UNCHANGED <<now, config, worker, store, redis, client, sched, retryCalls, audit>>

handlerThrows(l) ==
    /\ lane[l].pc = "handler"
    /\ MayThrow(rows[lane[l].job].type)
    /\ lane' = [lane EXCEPT ![l].pc = "fail", ![l].error = "HandlerError"]
    /\ thrown' = thrown \cup {lane[l].job}
    /\ UNCHANGED <<now, config, worker, store, redis, client, sched, retryCalls, cancelled,
                   enqueuedAt, failures>>

\* processJob, success: the unconditional update to COMPLETED and its history row
completeJob(l) ==
    /\ lane[l].pc = "complete"
    /\ LET j == lane[l].job IN
       /\ rows' = Update(j, [status |-> "COMPLETED", error |-> "null", lockedBy |-> Null,
                             lockedAt |-> Null, completedAt |-> now])
       /\ history' = HistoryCreate(j, "COMPLETED", "Completed")
    /\ lane' = [lane EXCEPT ![l].pc = "ack"]
    /\ UNCHANGED <<now, config, worker, redis, client, sched, retryCalls, audit>>

\* ackJob at the end of processJob and of the retry branch of handleFailure
ackJob(l) ==
    /\ lane[l].pc \in {"ack", "failAck"}
    /\ processing' = processing \ {lane[l].job}
    /\ lane' = [lane EXCEPT ![l] = IdleLane]
    /\ UNCHANGED <<now, config, worker, store, waiting, delayed, dlq, poison, client, sched,
                   retryCalls, audit>>

\* handleFailure: the fresh read of the row
failureRead(l) ==
    /\ lane[l].pc = "fail"
    /\ LET j == lane[l].job IN
       IF j \in DOMAIN rows
       THEN /\ lane' = [lane EXCEPT ![l].pc = "track", ![l].attempts = rows[j].attempts,
                                    ![l].maxRetries = rows[j].maxRetries]
            /\ UNCHANGED processing
       ELSE /\ processing' = processing \ {j}
            /\ lane' = [lane EXCEPT ![l] = IdleLane]
    /\ UNCHANGED <<now, config, worker, store, waiting, delayed, dlq, poison, client, sched,
                   retryCalls, audit>>

\* trackFailure: ZADD key now "now"; ZREMRANGEBYSCORE key 0 now-window; ZCARD key.
\* The member is the instant, so two failures of one millisecond are one entry.
PoisonSet(j) == IF j \in DOMAIN poison THEN poison[j] ELSE {}

\* a tracker that forgets the failures before the present one
TrackedNow(j) == {now}

TrackedFailures(j) ==
    {t \in PoisonSet(j) \cup {now} : t > now - config.POISON_PILL_WINDOW_MS}

IsPoison(failureCount) == failureCount >= config.POISON_PILL_THRESHOLD

\* a decision that looks at the retry budget only
ToDLQNoPoison(isPoisonPill, attempts, maxRetries) == attempts >= maxRetries

\* handleFailure: DLQ or retry
ToDLQ(isPoisonPill, attempts, maxRetries) == isPoisonPill \/ attempts >= maxRetries

\* handleFailure: the branch taken once trackFailure has returned
Branch(isPoisonPill, attempts, maxRetries) ==
    IF ToDLQ(isPoisonPill, attempts, maxRetries) THEN "deadUpdate" ELSE "scheduleRetry"

trackFailure(l) ==
    /\ lane[l].pc = "track"
    /\ LET j == lane[l].job
           isPoisonPill == IsPoison(Cardinality(TrackedFailures(j)))
       IN /\ poison' = (j :> TrackedFailures(j)) @@ poison
          /\ failures' = Record(failures, j, now)
          /\ lane' = [lane EXCEPT ![l].isPoisonPill = isPoisonPill,
                                  ![l].pc = IF isPoisonPill THEN "poisonDel"
                                            ELSE Branch(FALSE, lane[l].attempts,
                                                        lane[l].maxRetries)]
    /\ UNCHANGED <<now, config, worker, store, waiting, processing, delayed, dlq, client, sched,
                   retryCalls, cancelled, enqueuedAt, thrown>>

\* trackFailure: redis.del(key) once the job is classified as poison
poisonDel(l) ==
    /\ lane[l].pc = "poisonDel"
    /\ poison' = [j \in DOMAIN poison \ {lane[l].job} |-> poison[j]]
    /\ lane' = [lane EXCEPT ![l].pc = Branch(TRUE, lane[l].attempts, lane[l].maxRetries)]
    /\ UNCHANGED <<now, config, worker, store, waiting, processing, delayed, dlq, client, sched,
                   retryCalls, audit>>

\* handleFailure, DLQ branch: status DEAD and its history row
deadUpdate(l) ==
    /\ lane[l].pc = "deadUpdate"
    /\ LET j == lane[l].job IN
       /\ rows' = Update(j, [status |-> "DEAD", error |-> lane[l].error, lockedBy |-> Null,
                             lockedAt |-> Null])
       /\ history' = HistoryCreate(j, "DEAD",
                        IF lane[l].isPoisonPill THEN "Poison pill detected"
                        ELSE "Max retries exhausted")
    /\ lane' = [lane EXCEPT ![l].pc = "dlqSrem"]
    /\ UNCHANGED <<now, config, worker, redis, client, sched, retryCalls, audit>>

\* moveToDeadLetterQueue: a pipeline (no MULTI) of SREM processing and LPUSH dlq
moveToDeadLetterQueueSrem(l) ==
    /\ lane[l].pc = "dlqSrem"
    /\ processing' = processing \ {lane[l].job}
    /\ lane' = [lane EXCEPT ![l].pc = "dlqPush"]
    /\ UNCHANGED <<now, config, worker, store, waiting, delayed, dlq, poison, client, sched,
                   retryCalls, audit>>

moveToDeadLetterQueuePush(l) ==
    /\ lane[l].pc = "dlqPush"
    /\ dlq' = LPUSH(dlq, lane[l].job)
    /\ lane' = [lane EXCEPT ![l] = IdleLane]
    /\ UNCHANGED <<now, config, worker, store, waiting, processing, delayed, poison, client, sched,
                   retryCalls, audit>>

\* a delay that does not grow with the attempt
BackoffFlat(attempt, jitter) == config.RETRY_BASE_DELAY_MS + jitter

\* scheduleRetry: baseDelay * 2^attempt + floor(random * baseDelay)
BackoffDelay(attempt, jitter) == config.RETRY_BASE_DELAY_MS * Pow2(attempt) + jitter

scheduleRetry(l) ==
    /\ lane[l].pc = "scheduleRetry"
    /\ \E jitter \in 0..(config.RETRY_BASE_DELAY_MS - 1) :
          delayed' = ZADD(delayed, lane[l].job, now + BackoffDelay(lane[l].attempts, jitter))
    /\ lane' = [lane EXCEPT ![l].pc = "failedUpdate"]
    /\ UNCHANGED <<now, config, worker, store, waiting, processing, dlq, poison, client, sched,
                   retryCalls, audit>>

\* handleFailure, retry branch: status FAILED and its history row
failedUpdate(l) ==
    /\ lane[l].pc = "failedUpdate"
    /\ LET j == lane[l].job IN
       /\ rows' = Update(j, [status |-> "FAILED", error |-> lane[l].error, lockedBy |-> Null,
                             lockedAt |-> Null])
       /\ history' = HistoryCreate(j, "FAILED", "Failed, retrying")
    /\ lane' = [lane EXCEPT ![l].pc = "failAck"]
    /\ UNCHANGED <<now, config, worker, redis, client, sched, retryCalls, audit>>

\* handleFailure: findUnique or an update of the row rejects; the catch block
\* logs the error and is left with its ackJob
handleFailureThrows(l) ==
    /\ lane[l].pc \in {"fail", "deadUpdate", "failedUpdate"}
    /\ lane' = [lane EXCEPT ![l].pc = "failAck"]
    /\ UNCHANGED <<now, config, worker, store, redis, client, sched, retryCalls, audit>>

\* the worker process is killed while the handler runs: the lane stops for good
kill(l) ==
    /\ lane[l].pc = "handler"
    /\ \A k \in Lanes : lane[k].pc # "killed"
    /\ lane' = [lane EXCEPT ![l].pc = "killed"]
    /\ UNCHANGED <<now, config, worker, store, redis, client, sched, retryCalls, audit>>

\* this.inFlightJobs: incremented when dequeueJob has returned an id, decremented
\* when processJob has returned
inFlightJobs == Cardinality({l \in Lanes : lane[l].pc \notin {"poll", "dequeue", "stopped"}})

\* stop(): while (this.inFlightJobs > 0 && Date.now() - start < maxWait)
StopWaits(start, at) == inFlightJobs > 0 /\ at - start < maxWait

\* stop(), called once by the shutdown handler: the draining flag is set and the
\* counter is looked at for the first time; then sleep(1000) or this.running =
\* false.  A stop() begins early enough for its wait to end within the run.
\* The sleep is shorter than a unit of time: the next look comes at any instant.
stop ==
    /\ worker.stop = "none"
    /\ now + maxWait < MaxDrainTime
    /\ worker' = IF StopWaits(now, now)
                 THEN [worker EXCEPT !.draining = TRUE, !.stop = "wait", !.start = now]
                 ELSE [worker EXCEPT !.draining = TRUE, !.stop = "done", !.start = now,
                                     !.running = FALSE]
    /\ UNCHANGED <<now, config, store, redis, lane, client, sched, retryCalls, audit>>

\* stop(): the timer of sleep(1000) has fired; the next look at the counter
stopWait ==
    /\ worker.stop = "wait"
    /\ worker' = IF StopWaits(worker.start, now) THEN worker
                 ELSE [worker EXCEPT !.stop = "done", !.running = FALSE]
    /\ UNCHANGED <<now, config, store, redis, lane, client, sched, retryCalls, audit>>

\* the steps of a lane; poisonDel is listed by the specifications in which a
\* job can fail at enough instants to be classified as poison
Worker(l) ==
    \/ dequeueJob(l) \/ claimJob(l) \/ invokeHandler(l)
    \/ handlerReturns(l) \/ handlerThrows(l)
    \/ completeJob(l) \/ ackJob(l) \/ failureRead(l) \/ trackFailure(l)
    \/ deadUpdate(l) \/ moveToDeadLetterQueueSrem(l) \/ moveToDeadLetterQueuePush(l)
    \/ scheduleRetry(l) \/ failedUpdate(l)

\* ------------------------------------------------------------------ intake
Reply(c, res) == [client EXCEPT ![c] = [IdleClient EXCEPT !.res = res]]

\* a lookup that finds no row
ExistingNone(key) == {}

\* prisma.job.findUnique({ where: { idempotencyKey } }): the rows with that key
Existing(key) == {k \in DOMAIN rows : rows[k].idempotencyKey = key}

\* POST /jobs: insert of the row (unique idempotencyKey) and of its history row
Insert(c, body, id) ==
    IF body.idempotencyKey # Null
       /\ \E k \in DOMAIN rows : rows[k].idempotencyKey = body.idempotencyKey
    THEN /\ client' = Reply(c, "error")
         /\ UNCHANGED store
    ELSE   LET isScheduled == body.scheduledAt # Null /\ body.scheduledAt > now
               job == [status |-> IF isScheduled THEN "SCHEDULED" ELSE "PENDING",
                       priority |-> body.priority,
                       type |-> body.type,
                       attempts |-> 0,
                       maxRetries |-> IF body.maxRetries # Null THEN body.maxRetries
                                      ELSE config.DEFAULT_MAX_RETRIES,
                       visibilityTimeout |-> config.VISIBILITY_TIMEOUT_MS,
                       idempotencyKey |-> body.idempotencyKey,
                       scheduledAt |-> body.scheduledAt,
                       lockedBy |-> Null, lockedAt |-> Null,
                       error |-> "null", completedAt |-> Null]
           IN /\ rows' = (id :> job) @@ rows
              /\ history' = (id :> <<[status |-> job.status, message |-> "Job created"]>>)
                               @@ history
              /\ client' = [client EXCEPT ![c] =
                     [pc |-> IF isScheduled THEN "createDelayed" ELSE "createEnqueue",
                      id |-> id, body |-> body, res |-> "none"]]

\* uuidv4(): an id that no row and no request in flight has
Fresh(id) == id \notin DOMAIN rows /\ \A c \in Clients : client[c].id # id

\* POST /jobs up to its first write; id is the uuid that uuidv4() draws
routeCreate(c, body, id) ==
    /\ client[c].pc = "idle"
    /\ Fresh(id)
    /\ IF body.idempotencyKey # Null
       THEN IF Existing(body.idempotencyKey) # {}
            THEN /\ \E k \in Existing(body.idempotencyKey) :
                       client' = [client EXCEPT ![c] = [IdleClient EXCEPT !.res = "idempotent",
                                                                          !.body = body,
                                                                          !.id = k]]
                 /\ UNCHANGED store
            ELSE /\ client' = [client EXCEPT ![c] = [IdleClient EXCEPT !.pc = "createInsert",
                                                                       !.body = body,
                                                                       !.id = id]]
                 /\ UNCHANGED store
       ELSE Insert(c, body, id)
    /\ UNCHANGED <<now, config, worker, redis, lane, sched, retryCalls, audit>>

\* POST /jobs: the insert after the idempotency check found nothing
routeCreateInsert(c) ==
    /\ client[c].pc = "createInsert"
    /\ client[c].id \notin DOMAIN rows
    /\ Insert(c, client[c].body, client[c].id)
    /\ UNCHANGED <<now, config, worker, redis, lane, sched, retryCalls, audit>>

\* an enqueue that adds nothing
enqueueNothing(jobId, priority) == waiting

\* an enqueue that keeps the score of an id that is already waiting (ZADD NX)
enqueueOnce(jobId, priority) ==
    IF jobId \in DOMAIN waiting THEN waiting
    ELSE ZADD(waiting, jobId, calculateScore(priority, now))

\* enqueueJob: ZADD waiting score id
enqueueJob(jobId, priority) == ZADD(waiting, jobId, calculateScore(priority, now))

\* the instant of that call, kept for the record
Enqueued(jobId) == (jobId :> now) @@ enqueuedAt

\* POST /jobs: placement of a job that is not scheduled
routeCreateEnqueue(c) ==
    /\ client[c].pc = "createEnqueue"
    /\ waiting' = enqueueJob(client[c].id, client[c].body.priority)
    /\ enqueuedAt' = Enqueued(client[c].id)
    /\ client' = Reply(c, "created")
    /\ UNCHANGED <<now, config, worker, store, processing, delayed, dlq, poison, lane, sched,
                   retryCalls, cancelled, failures, thrown>>

\* POST /jobs: placement of a scheduled job
routeCreateDelayed(c) ==
    /\ client[c].pc = "createDelayed"
    /\ delayed' = ZADD(delayed, client[c].id, client[c].body.scheduledAt)
    /\ client' = Reply(c, "created")
    /\ UNCHANGED <<now, config, worker, store, waiting, processing, dlq, poison, lane, sched,
                   retryCalls, audit>>

RetryAllowed(status) == status \in {"FAILED", "DEAD", "CANCELLED"}
\* a check that lets every status through
AnyStatus(status) == TRUE

CancelAllowed(status) == status \in {"PENDING", "SCHEDULED"}
CompleteAllowed(status) == status = "PROCESSING"

\* the read and the status check that open retry, cancel and complete
Read(c, id, allowed, pc) ==
    /\ client[c].pc = "idle"
    /\ client' = IF id \notin DOMAIN rows THEN Reply(c, "notfound")
                 ELSE IF ~allowed THEN Reply(c, "conflict")
                 ELSE [client EXCEPT ![c] = [IdleClient EXCEPT !.pc = pc, !.id = id]]

\* POST /jobs/:id/retry
routeRetry(c, id) ==
    /\ Read(c, id, RetryAllowed(rows[id].status), "retryUpdate")
    /\ retryCalls' = IF client'[c].pc = "retryUpdate" THEN retryCalls + 1 ELSE retryCalls
    /\ cancelled' = cancelled \ {id}
    /\ UNCHANGED <<now, config, worker, store, redis, lane, sched, enqueuedAt, failures, thrown>>

routeRetryUpdate(c) ==
    /\ client[c].pc = "retryUpdate"
    /\ rows' = Update(client[c].id, [status |-> "PENDING", error |-> "null",
                                     lockedBy |-> Null, lockedAt |-> Null,
                                     attempts |-> 0, completedAt |-> Null])
    /\ history' = HistoryCreate(client[c].id, "PENDING", "Manual retry initiated")
    /\ client' = [client EXCEPT ![c].pc = "retryRemove"]
    /\ UNCHANGED <<now, config, worker, redis, lane, sched, retryCalls, audit>>

\* removeFromDLQ: LREM dlq 1 id
removeFromDLQ(jobId) == LREM1(dlq, jobId)

routeRetryRemove(c) ==
    /\ client[c].pc = "retryRemove"
    /\ dlq' = removeFromDLQ(client[c].id)
    /\ client' = [client EXCEPT ![c].pc = "retryEnqueue"]
    /\ UNCHANGED <<now, config, worker, store, waiting, processing, delayed, poison, lane, sched,
                   retryCalls, audit>>

routeRetryEnqueue(c) ==
    /\ client[c].pc = "retryEnqueue"
    /\ waiting' = enqueueJob(client[c].id, rows[client[c].id].priority)
    /\ enqueuedAt' = Enqueued(client[c].id)
    /\ client' = Reply(c, "ok")
    /\ UNCHANGED <<now, config, worker, store, processing, delayed, dlq, poison, lane, sched,
                   retryCalls, cancelled, failures, thrown>>

\* DELETE /jobs/:id
routeCancel(c, id) ==
    /\ Read(c, id, CancelAllowed(rows[id].status), "cancelUpdate")
    /\ UNCHANGED <<now, config, worker, store, redis, lane, sched, retryCalls, audit>>

routeCancelUpdate(c) ==
    /\ client[c].pc = "cancelUpdate"
    /\ rows' = Update(client[c].id, [status |-> "CANCELLED", completedAt |-> now])
    /\ history' = HistoryCreate(client[c].id, "CANCELLED", "Job cancelled by user")
    /\ client' = [client EXCEPT ![c].pc = "cancelRemove"]
    /\ UNCHANGED <<now, config, worker, redis, lane, sched, retryCalls, audit>>

\* removeFromQueue: ZREM waiting id
removeFromQueue(jobId) == ZREM(waiting, jobId)

\* the removeFromQueue call that ends DELETE /jobs/:id and POST /jobs/:id/complete
routeRemoveFromQueue(c) ==
    /\ client[c].pc \in {"cancelRemove", "completeRemove"}
    /\ waiting' = removeFromQueue(client[c].id)
    /\ client' = Reply(c, "ok")
    /\ cancelled' = IF client[c].pc = "cancelRemove" THEN cancelled \cup {client[c].id}
                    ELSE cancelled
    /\ UNCHANGED <<now, config, worker, store, processing, delayed, dlq, poison, lane, sched,
                   retryCalls, enqueuedAt, failures, thrown>>

\* POST /jobs/:id/complete
routeComplete(c, id) ==
    /\ Read(c, id, CompleteAllowed(rows[id].status), "completeUpdate")
    /\ UNCHANGED <<now, config, worker, store, redis, lane, sched, retryCalls, audit>>

routeCompleteUpdate(c) ==
    /\ client[c].pc = "completeUpdate"
    /\ rows' = Update(client[c].id, [status |-> "COMPLETED", completedAt |-> now,
                                     lockedBy |-> Null, lockedAt |-> Null])
    /\ history' = HistoryCreate(client[c].id, "COMPLETED", "Completed by user")
    /\ client' = [client EXCEPT ![c].pc = "completeRemove"]
    /\ UNCHANGED <<now, config, worker, redis, lane, sched, retryCalls, audit>>

\* --------------------------------------------------------------- scheduler
\* PROMOTE_DELAYED_LUA: ZRANGEBYSCORE delayed -inf now, then ZREMRANGEBYSCORE
\* a script that pops every id of delayed, due or not
DueJobsAll(at) == DOMAIN delayed

DueJobs(at) == {j \in DOMAIN delayed : delayed[j] <= at}

PromoteEligible(status) == status \in {"PENDING", "SCHEDULED", "FAILED"}

\* promoteDelayedJobs: the script and, when it returns nothing, the end of promotion
promoteEval(s) ==
    /\ sched[s].pc = "idle"
    /\ delayed' = [j \in DOMAIN delayed \ DueJobs(now) |-> delayed[j]]
    /\ sched' = [sched EXCEPT ![s] =
          IF DueJobs(now) = {} THEN [IdleSched EXCEPT !.pc = "reclaim"]
          ELSE [IdleSched EXCEPT !.pc = "promoteFind", !.now = now, !.jobs = DueJobs(now)]]
    /\ UNCHANGED <<now, config, worker, store, waiting, processing, dlq, poison, lane, client,
                   retryCalls, audit>>

\* promoteDelayedJobs: findMany of the popped ids that are still eligible
promoteFind(s) ==
    /\ sched[s].pc = "promoteFind"
    /\ LET jobs == {j \in sched[s].jobs : PromoteEligible(rows[j].status)} IN
       sched' = [sched EXCEPT ![s].jobs = jobs,
                              ![s].pc = IF jobs = {} THEN "reclaim" ELSE "promoteLoop"]
    /\ UNCHANGED <<now, config, worker, store, redis, lane, client, retryCalls, audit>>

\* promoteDelayedJobs, loop body: enqueueJob of the next job found
promoteEnqueue(s) ==
    /\ sched[s].pc = "promoteLoop"
    /\ \E j \in sched[s].jobs :
          /\ waiting' = enqueueJob(j, rows[j].priority)
          /\ enqueuedAt' = Enqueued(j)
          /\ sched' = [sched EXCEPT ![s].job = j, ![s].pc = "promoteUpdate"]
    /\ UNCHANGED <<now, config, worker, store, processing, delayed, dlq, poison, lane, client,
                   retryCalls, cancelled, failures, thrown>>

\* promoteDelayedJobs, loop body: the unconditional update to PENDING
promoteUpdate(s) ==
    /\ sched[s].pc = "promoteUpdate"
    /\ rows' = Update(sched[s].job, [status |-> "PENDING", scheduledAt |-> Null])
    /\ LET rest == sched[s].jobs \ {sched[s].job} IN
       sched' = [sched EXCEPT ![s].jobs = rest, ![s].job = Null,
                              ![s].pc = IF rest = {} THEN "reclaim" ELSE "promoteLoop"]
    /\ UNCHANGED <<now, config, worker, history, redis, lane, client, retryCalls, audit>>

\* the durable store is unavailable up to an instant and available afterwards
StoreDown(at) == at <= MaxOutageTime

\* promoteDelayedJobs: findMany or update rejects while the store is down; the
\* catch block of the tick logs the error and the tick is over
promoteThrows(s) ==
    /\ sched[s].pc \in {"promoteFind", "promoteUpdate"}
    /\ StoreDown(now)
    /\ sched' = [sched EXCEPT ![s] = IdleSched]
    /\ UNCHANGED <<now, config, worker, store, redis, lane, client, retryCalls, audit>>

\* reclaimTimedOutJobs: SMEMBERS processing
reclaimMembers(s) ==
    /\ sched[s].pc = "reclaim"
    /\ sched' = [sched EXCEPT ![s] =
          IF processing = {} THEN IdleSched
          ELSE [IdleSched EXCEPT !.pc = "reclaimFind", !.now = now, !.jobs = processing]]
    /\ UNCHANGED <<now, config, worker, store, redis, lane, client, retryCalls, audit>>

TimedOut(at, lockedAt, visibilityTimeout) == at - lockedAt > visibilityTimeout

\* reclaimTimedOutJobs: findMany of the PROCESSING rows, kept when their lock is too old
reclaimFind(s) ==
    /\ sched[s].pc = "reclaimFind"
    /\ LET jobs == {j \in sched[s].jobs :
                       /\ rows[j].status = "PROCESSING"
                       /\ rows[j].lockedAt # Null
                       /\ TimedOut(sched[s].now, rows[j].lockedAt,
                                   rows[j].visibilityTimeout)} IN
       sched' = [sched EXCEPT ![s] =
          IF jobs = {} THEN IdleSched ELSE [@ EXCEPT !.jobs = jobs, !.pc = "reclaimLoop"]]
    /\ UNCHANGED <<now, config, worker, store, redis, lane, client, retryCalls, audit>>

\* reclaimTimedOutJobs, loop body: SREM processing
reclaimSrem(s) ==
    /\ sched[s].pc = "reclaimLoop"
    /\ \E j \in sched[s].jobs :
          /\ processing' = processing \ {j}
          /\ sched' = [sched EXCEPT ![s].job = j, ![s].pc = "reclaimEnqueue"]
    /\ UNCHANGED <<now, config, worker, store, waiting, delayed, dlq, poison, lane, client,
                   retryCalls, audit>>

\* reclaimTimedOutJobs, loop body: enqueueJob
reclaimEnqueue(s) ==
    /\ sched[s].pc = "reclaimEnqueue"
    /\ waiting' = enqueueJob(sched[s].job, rows[sched[s].job].priority)
    /\ enqueuedAt' = Enqueued(sched[s].job)
    /\ sched' = [sched EXCEPT ![s].pc = "reclaimUpdate"]
    /\ UNCHANGED <<now, config, worker, store, processing, delayed, dlq, poison, lane, client,
                   retryCalls, cancelled, failures, thrown>>

\* reclaimTimedOutJobs, loop body: the unconditional update to PENDING
reclaimUpdate(s) ==
    /\ sched[s].pc = "reclaimUpdate"
    /\ rows' = Update(sched[s].job, [status |-> "PENDING", lockedBy |-> Null,
                                     lockedAt |-> Null])
    /\ LET rest == sched[s].jobs \ {sched[s].job} IN
       sched' = [sched EXCEPT ![s] =
          IF rest = {} THEN IdleSched
          ELSE [@ EXCEPT !.jobs = rest, !.job = Null, !.pc = "reclaimLoop"]]
    /\ UNCHANGED <<now, config, worker, history, redis, lane, client, retryCalls, audit>>

\* a tick: promoteDelayedJobs, then reclaimTimedOutJobs up to its age test
Tick(s) ==
    \/ promoteEval(s) \/ promoteFind(s) \/ promoteEnqueue(s) \/ promoteUpdate(s)
    \/ reclaimMembers(s) \/ reclaimFind(s)

\* reclaimTimedOutJobs: the loop over the jobs whose lock is too old
Reclaim(s) == reclaimSrem(s) \/ reclaimEnqueue(s) \/ reclaimUpdate(s)

\* -------------------------------------------------------------------- time
\* a lane that has been in processJob for longer than the job's visibilityTimeout:
\* its lease has expired
Overdue(l) ==
    /\ lane[l].pc # "poll"
    /\ lane[l].job \in DOMAIN rows
    /\ now - lane[l].startTime > rows[lane[l].job].visibilityTimeout

clockTick(last) ==
    /\ now < last
    /\ now' = now + 1
    /\ UNCHANGED <<config, worker, store, redis, lane, client, sched, retryCalls, audit>>


\* ---------------------------------------------------------- specifications
\* The environment of a deployment (the variables of the config schema), in
\* units scaled so that the few instants of a run span its windows.
Env == [RETRY_BASE_DELAY_MS |-> 1, VISIBILITY_TIMEOUT_MS |-> 1,
        POISON_PILL_THRESHOLD |-> 3, POISON_PILL_WINDOW_MS |-> 7,
        DEFAULT_MAX_RETRIES |-> 5]

Body(priority, type, maxRetries) ==
    [priority |-> priority, maxRetries |-> maxRetries, scheduledAt |-> Null,
     idempotencyKey |-> Null, type |-> type]

\* POST /jobs of a job that is not scheduled, whole
Create(c, body, id) == routeCreate(c, body, id) \/ routeCreateEnqueue(c)

\* Intake against two worker lanes, within one millisecond and between two
\* scheduler ticks: the requests of one client, each interleaved step by
\* step with the lanes.
Init == Start(Env)

Bodies == {Body("MEDIUM", "custom", m) : m \in 0..MaxMaxRetries}

Intake(c) ==
    \/ \E body \in Bodies, id \in 1..MaxJobs : routeCreate(c, body, id)
    \/ routeCreateEnqueue(c)
    \/ \E id \in DOMAIN rows : retryCalls < MaxRetryCalls /\ routeRetry(c, id)
    \/ routeRetryUpdate(c) \/ routeRetryRemove(c) \/ routeRetryEnqueue(c)
    \/ \E id \in DOMAIN rows : routeCancel(c, id)
    \/ routeCancelUpdate(c) \/ routeRemoveFromQueue(c)
    \/ \E id \in DOMAIN rows : routeComplete(c, id)
    \/ routeCompleteUpdate(c)

Next ==
    \/ \E l \in Lanes : Worker(l)
    \/ \E c \in Solo : Intake(c)

Spec == Init /\ [][Next]_vars

\* The dequeue order: jobs of every priority are created at several instants
\* and the lanes process them with a handler that returns.  Each id is
\* enqueued once.
InitOrder == Init

OrderBodies == {Body(p, "echo", Null) : p \in Priorities}

NextOrder ==
    \/ \E c \in Solo, body \in OrderBodies, id \in 1..MaxOrderJobs : routeCreate(c, body, id)
    \/ \E c \in Solo : routeCreateEnqueue(c)
    \/ \E l \in Lanes : \/ dequeueJob(l) \/ claimJob(l) \/ invokeHandler(l)
                        \/ handlerReturns(l) \/ completeJob(l) \/ ackJob(l)
    \/ clockTick(MaxOrderTime)

SpecOrder == InitOrder /\ [][NextOrder]_vars

\* Retries with backoff: one job whose handler fails, the lanes and the
\* scheduler, over the instants of its retries.  The visibility timeout is
\* longer than the run, so no lease expires.
RetryEnv == [Env EXCEPT !.VISIBILITY_TIMEOUT_MS = MaxRetryTime + 1]

InitRetry == Start(RetryEnv)

RetryBodies == {Body("MEDIUM", t, m) : t \in {"always-fail", "custom"}, m \in 0..MaxBudget}

NextRetry ==
    \/ \E c \in Solo, body \in RetryBodies, id \in 1..MaxJobs : Create(c, body, id)
    \/ \E l \in Lanes : Worker(l) \/ poisonDel(l)
    \/ \E s \in Solo : Tick(s)
    \/ clockTick(MaxRetryTime)

SpecRetry == InitRetry /\ [][NextRetry]_vars

\* Lease expiry: one job, the lanes and the scheduler with its reclaim loop,
\* over instants that outlast the visibility timeout.
InitLease == Init

LeaseBodies == {Body("MEDIUM", "custom", m) : m \in 0..MaxLeaseBudget}

NextLease ==
    \/ \E c \in Solo, body \in LeaseBodies, id \in 1..MaxJobs : Create(c, body, id)
    \/ \E l \in Lanes : Worker(l) \/ poisonDel(l)
    \/ \E s \in Solo : Tick(s) \/ Reclaim(s)
    \/ clockTick(MaxLeaseTime)

SpecLease == InitLease /\ [][NextLease]_vars

\* Manual retries: one job whose handler always fails is put back by hand
\* with POST /jobs/:id/retry, next to the lanes and the scheduler.
InitManual == InitRetry

ManualBodies == {Body("MEDIUM", "always-fail", m) : m \in {0, Null}}

Manual(c) ==
    \/ \E body \in ManualBodies, id \in 1..MaxJobs : Create(c, body, id)
    \/ \E id \in DOMAIN rows :
          retryCalls < MaxManualRetries /\ routeRetry(c, id)
    \/ routeRetryUpdate(c) \/ routeRetryRemove(c) \/ routeRetryEnqueue(c)

\* the steps of a lane whose jobs all fail
Failing(l) ==
    \/ dequeueJob(l) \/ claimJob(l) \/ invokeHandler(l) \/ handlerThrows(l)
    \/ ackJob(l) \/ failureRead(l) \/ trackFailure(l) \/ poisonDel(l)
    \/ deadUpdate(l) \/ moveToDeadLetterQueueSrem(l) \/ moveToDeadLetterQueuePush(l)
    \/ scheduleRetry(l) \/ failedUpdate(l)

NextManual ==
    \/ \E c \in Solo : Manual(c)
    \/ \E l \in Lanes : Failing(l)
    \/ \E s \in Solo : Tick(s)
    \/ clockTick(MaxManualTime)

SpecManual == InitManual /\ [][NextManual]_vars

\* Idempotent submission: two clients post jobs that carry one of two keys,
\* scheduled or not, their requests interleaved step by step.
InitIdem == Init

Keys == {1, 2}

IdemBodies ==
    {[Body("MEDIUM", "echo", Null) EXCEPT !.idempotencyKey = k, !.scheduledAt = t] :
        k \in Keys, t \in {Null, MaxIdemTime}}

NextIdem ==
    \/ \E c \in Clients, body \in IdemBodies, id \in 1..MaxIdemJobs : routeCreate(c, body, id)
    \/ \E c \in Clients : \/ routeCreateInsert(c)
                          \/ routeCreateEnqueue(c)
                          \/ routeCreateDelayed(c)
    \/ clockTick(MaxIdemTime)

SpecIdem == InitIdem /\ [][NextIdem]_vars

\* Scheduled execution: one job posted with a scheduledAt, the lanes and the
\* scheduler, over the instants before and after it is due.  No lease
\* expires.
InitSched == InitRetry

SchedBodies ==
    {[Body("MEDIUM", "custom", m) EXCEPT !.scheduledAt = t] :
        m \in {0, Null}, t \in 1..MaxSchedTime}

NextSched ==
    \/ \E c \in Solo, body \in SchedBodies, id \in 1..MaxJobs : routeCreate(c, body, id)
    \/ \E c \in Solo : routeCreateEnqueue(c) \/ routeCreateDelayed(c)
    \/ \E l \in Lanes : Worker(l)
    \/ \E s \in Solo : Tick(s)
    \/ clockTick(MaxSchedTime)

SpecSched == InitSched /\ [][NextSched]_vars

\* The round trip of a job whose handler returns: one job of type echo,
\* scheduled or not, with no retry budget, so that nothing is due later than
\* the last instant.  No lease expires and nothing crashes.  The poll loops,
\* the scheduler's interval and the clock never stop, and a request that has
\* started is carried to its reply: weak fairness of each.
InitLive == InitRetry

LiveBodies ==
    {[Body("MEDIUM", "echo", 0) EXCEPT !.scheduledAt = t] : t \in {Null} \cup 1..MaxLiveTime}

\* the steps of a lane whose handlers return; a failure is that of the claim
Returning(l) ==
    \/ dequeueJob(l) \/ claimJob(l) \/ invokeHandler(l) \/ handlerReturns(l)
    \/ completeJob(l) \/ ackJob(l) \/ failureRead(l) \/ trackFailure(l)
    \/ deadUpdate(l) \/ moveToDeadLetterQueueSrem(l) \/ moveToDeadLetterQueuePush(l)

Placement(c) == routeCreateEnqueue(c) \/ routeCreateDelayed(c)

NextLive ==
    \/ \E c \in Solo, body \in LiveBodies, id \in 1..MaxJobs : routeCreate(c, body, id)
    \/ \E c \in Solo : Placement(c)
    \/ \E l \in Lanes : Returning(l)
    \/ \E s \in Solo : Tick(s)
    \/ clockTick(MaxLiveTime)

FairLive ==
    /\ \A c \in Solo : WF_vars(Placement(c))
    /\ \A l \in Lanes : WF_vars(Returning(l))
    /\ \A s \in Solo : WF_vars(Tick(s))
    /\ WF_vars(clockTick(MaxLiveTime))

SpecLive == InitLive /\ [][NextLive]_vars /\ FairLive

\* Crash recovery: one job of type echo with little retry budget, two
\* workers of one lane each, one of which is killed while it runs the handler;
\* the scheduler of the other reclaims the job once its lease has expired.
\* The surviving processes and the clock are scheduled fairly.
InitCrash == Init

CrashBodies == {Body("MEDIUM", "echo", m) : m \in 0..MaxCrashBudget}

\* the ticks of a scheduler with nothing in delayed(Q)
Sweep(s) == promoteEval(s) \/ reclaimMembers(s) \/ reclaimFind(s) \/ Reclaim(s)

NextCrash ==
    \/ \E c \in Solo, body \in CrashBodies, id \in 1..MaxJobs : routeCreate(c, body, id)
    \/ \E c \in Solo : routeCreateEnqueue(c)
    \/ \E l \in Lanes : Returning(l) \/ kill(l)
    \/ \E s \in Solo : Sweep(s)
    \/ clockTick(MaxCrashTime)

FairCrash ==
    /\ \A c \in Solo : WF_vars(routeCreateEnqueue(c))
    /\ \A l \in Lanes : WF_vars(Returning(l))
    /\ \A s \in Solo : WF_vars(Sweep(s))
    /\ WF_vars(clockTick(MaxCrashTime))

SpecCrash == InitCrash /\ [][NextCrash]_vars /\ FairCrash

\* Shutdown: jobs are posted at the first instant, some with a handler that
\* never returns, and stop() is called while the lanes of the worker poll and
\* process them.  The lanes, stop() and the clock are scheduled fairly; a
\* request that has started is carried to its reply.
DrainBodies == {Body("MEDIUM", t, 0) : t \in {"echo", "stuck"}}

Draining(l) ==
    \/ pollLoop(l) \/ pollExit(l) \/ dequeueJob(l) \/ claimJob(l) \/ invokeHandler(l)
    \/ handlerReturns(l) \/ completeJob(l) \/ ackJob(l)

NextDrain ==
    \/ \E c \in Solo, body \in DrainBodies, id \in 1..MaxDrainJobs :
          now = 0 /\ routeCreate(c, body, id)
    \/ \E c \in Solo : routeCreateEnqueue(c)
    \/ \E l \in Lanes : Draining(l)
    \/ stop \/ stopWait
    \/ clockTick(MaxDrainTime)

SpecDrain ==
    /\ Init /\ [][NextDrain]_vars
    /\ \A c \in Solo : WF_vars(routeCreateEnqueue(c))
    /\ \A l \in Lanes : WF_vars(Draining(l))
    /\ WF_vars(stopWait)
    /\ WF_vars(clockTick(MaxDrainTime))

\* Cancellation of scheduled jobs: the run of SpecSched with DELETE /jobs/:id
\* interleaved step by step with the scheduler and the lanes.
Cancel(c) ==
    \/ \E id \in DOMAIN rows : routeCancel(c, id)
    \/ routeCancelUpdate(c) \/ routeRemoveFromQueue(c)

NextPromote ==
    \/ \E c \in Solo, body \in SchedBodies, id \in 1..MaxJobs : routeCreate(c, body, id)
    \/ \E c \in Solo : routeCreateEnqueue(c) \/ routeCreateDelayed(c) \/ Cancel(c)
    \/ \E l \in Lanes : Worker(l)
    \/ \E s \in Solo : Tick(s)
    \/ clockTick(MaxSchedTime)

SpecPromote == InitSched /\ [][NextPromote]_vars

\* Two schedulers: one job of type echo with no retry budget, scheduled or
\* not, two lanes, and the ticks of two scheduler instances interleaved step
\* by step, over instants that outlast the visibility timeout.
TwinBodies ==
    {[Body("MEDIUM", "echo", 0) EXCEPT !.scheduledAt = t] : t \in {Null, 1}}

NextTwin ==
    \/ \E c \in Solo, body \in TwinBodies, id \in 1..MaxJobs : routeCreate(c, body, id)
    \/ \E c \in Solo : Placement(c)
    \/ \E l \in Lanes : Returning(l)
    \/ \E s \in Scheds : Tick(s) \/ Reclaim(s)
    \/ clockTick(MaxTwinTime)

SpecTwin == Init /\ [][NextTwin]_vars

\* Failing store: one job whose handler may throw, the lanes and the scheduler
\* with its reclaim loop, and calls of the store that fail inside
\* handleFailure.  The lanes, the scheduler and the clock are scheduled
\* fairly; a request that has started is carried to its reply.
Faulty(l) == Worker(l) \/ handleFailureThrows(l)

NextFault ==
    \/ \E c \in Solo, body \in LeaseBodies, id \in 1..MaxJobs : routeCreate(c, body, id)
    \/ \E c \in Solo : routeCreateEnqueue(c)
    \/ \E l \in Lanes : Faulty(l)
    \/ \E s \in Solo : Tick(s) \/ Reclaim(s)
    \/ clockTick(MaxFaultTime)

SpecFault ==
    /\ Init /\ [][NextFault]_vars
    /\ \A c \in Solo : WF_vars(routeCreateEnqueue(c))
    /\ \A l \in Lanes : WF_vars(Faulty(l))
    /\ \A s \in Solo : WF_vars(Tick(s) \/ Reclaim(s))
    /\ WF_vars(clockTick(MaxFaultTime))

\* Completion from outside: one job whose handler returns or never does, the
\* lanes, the scheduler with its reclaim loop and POST /jobs/:id/complete,
\* over instants that outlast the visibility timeout.  Nothing crashes; the
\* lanes, the scheduler, the clock and the requests that have started are
\* scheduled fairly.
Complete(c) ==
    \/ \E id \in DOMAIN rows : routeComplete(c, id)
    \/ routeCompleteUpdate(c) \/ routeRemoveFromQueue(c)

NextOrphan ==
    \/ \E c \in Solo, body \in DrainBodies, id \in 1..MaxJobs : routeCreate(c, body, id)
    \/ \E c \in Solo : routeCreateEnqueue(c) \/ Complete(c)
    \/ \E l \in Lanes : Returning(l)
    \/ \E s \in Solo : Sweep(s)
    \/ clockTick(MaxOrphanTime)

SpecOrphan ==
    /\ Init /\ [][NextOrphan]_vars
    /\ \A c \in Solo : WF_vars(routeCreateEnqueue(c) \/ routeCompleteUpdate(c)
                                  \/ routeRemoveFromQueue(c))
    /\ \A l \in Lanes : WF_vars(Returning(l))
    /\ \A s \in Solo : WF_vars(Sweep(s))
    /\ WF_vars(clockTick(MaxOrphanTime))

\* Failing coordination store: the run of SpecDrain with dequeue calls that
\* the store rejects.
NextOutage ==
    \/ NextDrain
    \/ \E l \in Lanes : dequeueJobThrows(l)

SpecOutage == Init /\ [][NextOutage]_vars

\* Unavailable durable store: the run of SpecLive with scheduler ticks whose
\* store calls fail during the first instants.  The lanes, the scheduler's
\* interval and the clock never stop; a request that has started is carried
\* to its reply.
Ticking(s) == Tick(s) \/ promoteThrows(s)

NextBlackout ==
    \/ \E c \in Solo, body \in LiveBodies, id \in 1..MaxJobs : routeCreate(c, body, id)
    \/ \E c \in Solo : Placement(c)
    \/ \E l \in Lanes : Returning(l)
    \/ \E s \in Solo : Ticking(s)
    \/ clockTick(MaxBlackoutTime)

SpecBlackout ==
    /\ InitLive /\ [][NextBlackout]_vars
    /\ \A c \in Solo : WF_vars(Placement(c))
    /\ \A l \in Lanes : WF_vars(Returning(l))
    /\ \A s \in Solo : WF_vars(Ticking(s))
    /\ WF_vars(clockTick(MaxBlackoutTime))

\* Backoff delays: deployments with several base delays, one job whose
\* handler always fails, posted at the first instant, one lane and the
\* scheduler, over the instants of two retries.  No lease expires.
InitBackoff ==
    \E b \in 1..MaxBackoffBase :
       Start([Env EXCEPT !.RETRY_BASE_DELAY_MS = b,
                         !.VISIBILITY_TIMEOUT_MS = MaxBackoffTime + 1,
                         !.POISON_PILL_WINDOW_MS = MaxBackoffTime + 1])

BackoffBodies == {Body("MEDIUM", "always-fail", MaxBackoffBudget)}

NextBackoff ==
    \/ \E c \in Solo, body \in BackoffBodies, id \in 1..MaxJobs :
          now = 0 /\ Create(c, body, id)
    \/ \E l \in Solo : Failing(l)
    \/ \E s \in Solo : Tick(s)
    \/ clockTick(MaxBackoffTime)

SpecBackoff == InitBackoff /\ [][NextBackoff]_vars

\* Enqueue of an id that is waiting: jobs of one priority are posted, and
\* two clients cancel and retry the first of them, their requests
\* interleaved step by step with each other and with a lane, at several
\* instants.
RequeueBodies == {Body("MEDIUM", "echo", 0)}

Requeue(c) ==
    \/ \E id \in DOMAIN rows \cap 1..MaxJobs :
          \/ retryCalls < MaxRetryCalls /\ routeRetry(c, id)
          \/ routeCancel(c, id)
    \/ routeRetryUpdate(c) \/ routeRetryRemove(c) \/ routeRetryEnqueue(c)
    \/ routeCancelUpdate(c) \/ routeRemoveFromQueue(c)

NextRequeue ==
    \/ \E c \in Clients, body \in RequeueBodies, id \in 1..MaxRequeueJobs :
          routeCreate(c, body, id)
    \/ \E c \in Clients : routeCreateEnqueue(c) \/ Requeue(c)
    \/ \E l \in Solo : Returning(l)
    \/ clockTick(MaxRequeueTime)

SpecRequeue == Init /\ [][NextRequeue]_vars

\* ------------------------------------------------------------------ claims
Executing(l, j) == lane[l].pc = "handler" /\ lane[l].job = j

\* C1: while no lease has expired, no two lanes execute the handler of one job
\* at the same time.
C1_AtMostOneInFlight ==
    \A j \in DOMAIN rows : \A l1, l2 \in Lanes :
        (l1 # l2 /\ Executing(l1, j) /\ Executing(l2, j)) => (Overdue(l1) \/ Overdue(l2))

\* a dequeue call of lane l returns a job in this step
Returns(l) == lane[l].pc = "poll" /\ lane'[l].pc = "claim"

\* C2: a dequeue that returns an id finds it in waiting(Q), removes it from
\* waiting(Q) and adds it to processing(Q) in the same step, no other call
\* returns in that step, and the id, which is enqueued once, was returned to no
\* lane before; while waiting(Q) is empty no dequeue returns an id and nothing
\* is added to processing(Q).
C2_DequeueAtomic ==
    [][/\ \A l \in Lanes : Returns(l) =>
             LET j == lane'[l].job IN
             /\ j \in DOMAIN waiting
             /\ j \notin DOMAIN waiting'
             /\ j \in processing'
             /\ \A k \in Lanes \ {l} : lane'[k] = lane[k] /\ lane[k].job # j
             /\ rows[j].attempts = 0
       /\ DOMAIN waiting = {} =>
             /\ \A l \in Lanes : ~Returns(l)
             /\ processing' \subseteq processing]_vars

\* two lanes have each been handed a job of their own by concurrent dequeues
C2_Witness ==
    \E l, k \in Lanes :
        /\ lane[l].pc = "claim" /\ lane[k].pc = "claim"
        /\ lane[l].job # lane[k].job
        /\ {lane[l].job, lane[k].job} \subseteq processing
        /\ {lane[l].job, lane[k].job} \cap DOMAIN waiting = {}

RetryWrites(j) ==
    \E c \in Clients : client[c].pc = "retryUpdate" /\ client[c].id = j
                        /\ client'[c].pc = "retryRemove"

\* C3: a COMPLETED row never changes status again, and a CANCELLED or DEAD row
\* changes status only by the update of the retry route.
C3_TerminalReopenedOnlyByRetry ==
    [][\A j \in DOMAIN rows :
          /\ rows[j].status = "COMPLETED" => rows'[j].status = "COMPLETED"
          /\ (rows[j].status \in {"CANCELLED", "DEAD"} /\ rows'[j].status # rows[j].status)
                => RetryWrites(j)]_vars

Invokes(l, j) == lane[l].pc = "history" /\ lane[l].job = j /\ lane'[l].pc = "handler"

\* C4: once cancel(id) has succeeded and until retry(id) is called, the row is
\* CANCELLED, the id is not in waiting(Q) and no lane invokes the job's handler.
C4_CancelRemovesFromDispatch ==
    [][\A j \in cancelled' :
          /\ rows'[j].status = "CANCELLED"
          /\ j \notin DOMAIN waiting'
          /\ j \in cancelled => \A l \in Lanes : ~Invokes(l, j)]_vars

Rank(priority) == CASE priority = "HIGH" -> 1 [] priority = "MEDIUM" -> 2
                    [] priority = "LOW" -> 3

\* C5: a dequeue returns a job whose priority is the highest of the jobs that
\* are in waiting(Q) at that instant, whenever they were enqueued.
C5_HigherPriorityFirst ==
    [][\A l \in Lanes : Returns(l) =>
          \A k \in DOMAIN waiting :
             Rank(rows[lane'[l].job].priority) <= Rank(rows[k].priority)]_vars

\* a HIGH job has been dequeued ahead of a LOW job that was enqueued before it
C5_Witness ==
    \E l \in Lanes : \E k \in DOMAIN waiting :
        /\ lane[l].pc = "claim"
        /\ rows[lane[l].job].priority = "HIGH"
        /\ rows[k].priority = "LOW"
        /\ enqueuedAt[k] < enqueuedAt[lane[l].job]

\* C6: of the jobs of one priority that are in waiting(Q), each enqueued once,
\* a dequeue returns the one enqueued at the earliest instant, and of those
\* enqueued at that instant the one with the smallest id.
C6_FifoWithinPriority ==
    [][\A l \in Lanes : Returns(l) =>
          LET j == lane'[l].job IN
          \A k \in DOMAIN waiting \ {j} :
             rows[k].priority = rows[j].priority =>
                \/ enqueuedAt[j] < enqueuedAt[k]
                \/ enqueuedAt[j] = enqueuedAt[k] /\ j < k]_vars

\* a job has been dequeued ahead of a job of its priority with a smaller id
\* that was enqueued later, and ahead of one with a larger id enqueued at the
\* same instant
C6_Witness ==
    \E l \in Lanes : \E k1, k2 \in DOMAIN waiting :
        LET j == lane[l].job IN
        /\ lane[l].pc = "claim"
        /\ rows[k1].priority = rows[j].priority /\ rows[k2].priority = rows[j].priority
        /\ enqueuedAt[j] < enqueuedAt[k1] /\ k1 < j
        /\ enqueuedAt[j] = enqueuedAt[k2] /\ j < k2

\* the number of history rows of job j with that status
Count(j, status) == Cardinality({i \in 1..Len(history[j]) : history[j][i].status = status})

\* C7: a job with maxRetries = 2 whose handler always fails is DEAD after three
\* PROCESSING and two FAILED, with attempts = 3.
C7_RetryScenario ==
    \A j \in DOMAIN rows :
        (rows[j].type = "always-fail" /\ rows[j].maxRetries = 2 /\ rows[j].status = "DEAD")
            => /\ rows[j].attempts = 3
               /\ Count(j, "PROCESSING") = 3
               /\ Count(j, "FAILED") = 2

\* C8: attempts <= maxRetries + 1 for every job in every state.
C8_BoundedAttempts ==
    \A j \in DOMAIN rows : rows[j].attempts <= rows[j].maxRetries + 1

\* C9: a job with maxRetries = 0 is never given status FAILED, is never added
\* to delayed(Q), and once its handler has thrown no lane invokes its handler
\* again.
C9_NoRetryWithoutBudget ==
    [][\A j \in DOMAIN rows : rows[j].maxRetries = 0 =>
          /\ rows'[j].status # "FAILED"
          /\ j \in DOMAIN delayed' => j \in DOMAIN delayed
          /\ j \in thrown => \A l \in Lanes : ~Invokes(l, j)]_vars

\* the last threshold failures recorded for job j lie within one poison window
PoisonFailure(j) ==
    /\ j \in DOMAIN failures
    /\ LET f == failures[j]
           n == Len(f)
       IN /\ n >= config.POISON_PILL_THRESHOLD
          /\ f[n - config.POISON_PILL_THRESHOLD + 1] > f[n] - config.POISON_PILL_WINDOW_MS

\* lane l records a failure of the job it holds in this step
Tracks(l) == lane'[l] # lane[l] /\ failures' # failures

\* lane l is in handleFailure and trackFailure has returned isPoisonPill = true
HandlesPoison(l) == lane[l].isPoisonPill

\* job j has a history row DEAD by poison pill
DeadByPoison(j) ==
    \E i \in 1..Len(history[j]) :
        history[j][i] = [status |-> "DEAD", message |-> "Poison pill detected"]

\* C10: the lane that records the third failure of a job inside one poison
\* window classifies the job as poison, whatever its attempts and maxRetries;
\* from then on it schedules no retry, writes no status but DEAD, and has
\* written DEAD and pushed the id on dlq(Q) when it lets go of the job.
C10_PoisonPill ==
    [][\A l \in Lanes :
          LET j == lane[l].job IN
          /\ (Tracks(l) /\ PoisonFailure(j)') => HandlesPoison(l)'
          /\ (HandlesPoison(l) /\ lane'[l] # lane[l]) =>
                /\ delayed' = delayed /\ waiting' = waiting
                /\ rows' # rows => rows'[j].status = "DEAD"
                /\ lane'[l].job # j =>
                      /\ dlq' = LPUSH(dlq, j)
                      /\ DeadByPoison(j)]_vars

\* a job with retries left is DEAD and in dlq(Q) after its third failure
C10_Witness ==
    \E j \in DOMAIN rows :
        /\ PoisonFailure(j)
        /\ rows[j].attempts < rows[j].maxRetries
        /\ rows[j].status = "DEAD"
        /\ InList(dlq, j)
        /\ DeadByPoison(j)

\* the recorded failures of j are n, at n different milliseconds
DistinctFailures(j, n) ==
    /\ j \in DOMAIN failures
    /\ Len(failures[j]) = n
    /\ Cardinality({failures[j][i] : i \in 1..n}) = n

\* C11: poison tracking survives manual retry.  When the lane that has run the
\* always failing handler for the third time, the three failures recorded at
\* three milliseconds of one poison window, writes the outcome of that failure,
\* it writes DEAD with the poison-pill reason, although every retry has reset
\* attempts to 0.
\* the newest history row of j
LastRow(j) == history[j][Len(history[j])]

ThirdFailure(l) ==
    /\ lane[l].pc \in {"deadUpdate", "failedUpdate"}
    /\ lane'[l] # lane[l]
    /\ lane[l].error = "HandlerError"
    /\ \A k \in Lanes \ {l} : lane[k].job # lane[l].job
    /\ rows[lane[l].job].type = "always-fail"
    /\ Count(lane[l].job, "PROCESSING") = config.POISON_PILL_THRESHOLD
    /\ DistinctFailures(lane[l].job, config.POISON_PILL_THRESHOLD)
    /\ now < config.POISON_PILL_WINDOW_MS

C11_PoisonSurvivesRetry ==
    [][\A l \in Lanes :
          ThirdFailure(l) =>
             /\ rows'[lane[l].job].status = "DEAD"
             /\ LastRow(lane[l].job)' =
                   [status |-> "DEAD", message |-> "Poison pill detected"]]_vars

C11_Witness ==
    \E j \in DOMAIN rows :
       /\ rows[j].status = "DEAD"
       /\ rows[j].attempts = 1
       /\ Count(j, "PROCESSING") = config.POISON_PILL_THRESHOLD
       /\ retryCalls = MaxManualRetries
       /\ LastRow(j) = [status |-> "DEAD", message |-> "Poison pill detected"]

\* C12: idempotency key uniqueness.  No two rows carry one idempotency key,
\* and a create whose key a row already carries returns that row with
\* idempotent = true and changes neither the rows, nor the history, nor
\* waiting(Q), nor delayed(Q).
Carries(K) == \E k \in DOMAIN rows : rows[k].idempotencyKey = K

OneRowPerKey ==
    \A j, k \in DOMAIN rows :
       j # k /\ rows[j].idempotencyKey # Null => rows[j].idempotencyKey # rows[k].idempotencyKey

SecondCreate(c) ==
    /\ client[c].pc = "idle"
    /\ client'[c] # client[c]
    /\ client'[c].body.idempotencyKey # Null
    /\ Carries(client'[c].body.idempotencyKey)

C12_IdempotencyKeyUnique ==
    /\ []OneRowPerKey
    /\ [][\A c \in Clients :
            SecondCreate(c) =>
               /\ client'[c].pc = "idle"
               /\ client'[c].res = "idempotent"
               /\ client'[c].id \in DOMAIN rows
               /\ rows[client'[c].id].idempotencyKey = client'[c].body.idempotencyKey
               /\ UNCHANGED <<rows, history, waiting, delayed>>]_vars

C12_Witness ==
    \E c \in Clients, k \in DOMAIN rows :
       /\ client[c].res = "idempotent"
       /\ client[c].id = k
       /\ rows[k].idempotencyKey = client[c].body.idempotencyKey
       /\ Cardinality(DOMAIN rows) = MaxIdemJobs

\* C13: concurrent idempotent creation.  Requests that carry one key and run
\* interleaved leave one row with that key, and none of them is answered
\* with an error.
C13_ConcurrentCreate ==
    /\ OneRowPerKey
    /\ \A c \in Clients : client[c].res # "error"

\* C14: effect of retry.  When POST /jobs/:id/retry, accepted for a FAILED, DEAD
\* or CANCELLED job, returns, the job is PENDING with attempts = 0, no error,
\* no lock and no completion instant, its id is in waiting(Q) and is not in
\* dlq(Q).
RetryReturns(c) == client[c].pc = "retryEnqueue" /\ client'[c].pc = "idle"

C14_EffectOfRetry ==
    [][\A c \in Clients :
          RetryReturns(c) =>
             LET j == client[c].id IN
             /\ rows'[j].status = "PENDING"
             /\ rows'[j].attempts = 0
             /\ rows'[j].error = "null"
             /\ rows'[j].lockedBy = Null /\ rows'[j].lockedAt = Null
             /\ rows'[j].completedAt = Null
             /\ j \in DOMAIN waiting'
             /\ ~InList(dlq', j)]_vars

\* C15: forbidden transitions are rejected without effect.  A retry is let
\* through only for a FAILED, DEAD or CANCELLED job, a cancel only for a
\* PENDING or SCHEDULED one, a complete only for a PROCESSING one; every
\* other request for an existing job is answered with a conflict, and that
\* answer leaves the rows, the history, waiting, processing, delayed and dlq as
\* they were.
Rejects(c) ==
    client[c].pc = "idle" /\ client'[c] # client[c] /\ client'[c].res = "conflict"

LetThrough(c, pc, j) ==
    client[c].pc = "idle" /\ client'[c].pc = pc /\ client'[c].id = j

C15_ForbiddenRejected ==
    [][\A c \in Clients :
          /\ Rejects(c) =>
                UNCHANGED <<rows, history, waiting, processing, delayed, dlq>>
          /\ \A j \in DOMAIN rows :
                /\ LetThrough(c, "retryUpdate", j) =>
                      rows[j].status \in {"FAILED", "DEAD", "CANCELLED"}
                /\ LetThrough(c, "cancelUpdate", j) =>
                      rows[j].status \in {"PENDING", "SCHEDULED"}
                /\ LetThrough(c, "completeUpdate", j) =>
                      rows[j].status = "PROCESSING"]_vars

C15_Witness ==
    \E c \in Clients, j \in DOMAIN rows, l \in Lanes :
       /\ client[c].res = "conflict"
       /\ rows[j].status = "PROCESSING"
       /\ Executing(l, j)

\* C16: external completion acks the job.  When POST /jobs/:id/complete,
\* accepted for a PROCESSING job, returns, the job is COMPLETED with no lock
\* and its id is not in processing(Q).
CompleteReturns(c) == client[c].pc = "completeRemove" /\ client'[c].pc = "idle"

C16_CompleteAcks ==
    [][\A c \in Clients :
          CompleteReturns(c) =>
             LET j == client[c].id IN
             /\ rows'[j].status = "COMPLETED"
             /\ rows'[j].lockedBy = Null /\ rows'[j].lockedAt = Null
             /\ j \notin processing']_vars

\* C17: no early dispatch of a scheduled job.  At every instant earlier than
\* the scheduledAt of a job that was created with it in the future, the job is
\* SCHEDULED with attempts = 0, its id is neither in waiting(Q) nor in
\* processing(Q) and no lane holds it.
Early(j) == rows[j].scheduledAt # Null /\ now < rows[j].scheduledAt

C17_NoEarlyDispatch ==
    \A j \in DOMAIN rows :
       Early(j) =>
          /\ rows[j].status = "SCHEDULED"
          /\ rows[j].attempts = 0
          /\ j \notin DOMAIN waiting
          /\ j \notin processing
          /\ \A l \in Lanes : lane[l].job # j

C17_Witness ==
    \E j \in DOMAIN rows :
       /\ Early(j)
       /\ j \in DOMAIN delayed
       /\ now = MaxSchedTime - 1
       /\ \E s \in Scheds : sched[s].pc = "reclaim"

\* C18: scheduled round trip.  With the scheduler and the lanes running, a
\* handler that returns, fair scheduling and no crash, every job that is
\* created, scheduled or not, is eventually COMPLETED, and its status only
\* moves along SCHEDULED, PENDING, PROCESSING, COMPLETED.
RoundTrip(from, to) ==
    \/ from = "SCHEDULED" /\ to = "PENDING"
    \/ from = "PENDING" /\ to = "PROCESSING"
    \/ from = "PROCESSING" /\ to = "COMPLETED"

C18_ScheduledRoundTrip ==
    /\ \A j \in 1..MaxJobs :
          (j \in DOMAIN rows) ~> (j \in DOMAIN rows /\ rows[j].status = "COMPLETED")
    /\ [][\A j \in DOMAIN rows :
            rows'[j].status # rows[j].status => RoundTrip(rows[j].status, rows'[j].status)]_vars

\* C19: crash recovery.  A job whose worker was killed in the handler after
\* the first claim (attempts = 1), early enough for its lease to expire within
\* the run, is eventually PENDING with no lock and attempts = 1, its id in
\* waiting(Q) and not in processing(Q); and the claim that follows the kill
\* sets attempts to 2.
Killed(j) ==
    /\ j \in DOMAIN rows
    /\ \E l \in Lanes : lane[l].pc = "killed" /\ lane[l].job = j
    /\ rows[j].status = "PROCESSING"
    /\ rows[j].attempts = 1
    /\ rows[j].lockedAt # Null
    /\ rows[j].lockedAt + rows[j].visibilityTimeout < MaxCrashTime

Recovered(j) ==
    /\ j \in DOMAIN rows
    /\ rows[j].status = "PENDING"
    /\ rows[j].lockedBy = Null /\ rows[j].lockedAt = Null
    /\ rows[j].attempts = 1
    /\ j \in DOMAIN waiting
    /\ j \notin processing

ClaimsAfterKill(l, j) ==
    /\ lane[l].pc = "claim" /\ lane[l].job = j /\ lane'[l].pc = "history"
    /\ \E k \in Lanes : lane[k].pc = "killed" /\ lane[k].job = j
    /\ Count(j, "PROCESSING") = 1

C19_CrashRecovery ==
    /\ \A j \in 1..MaxJobs : Killed(j) ~> Recovered(j)
    /\ [][\A l \in Lanes, j \in DOMAIN rows :
            ClaimsAfterKill(l, j) => rows'[j].attempts = 2]_vars

\* C20: attempts never decreases.  In every step the attempts of every job is
\* at least what it was.
C20_AttemptsNeverDecreases ==
    [][\A j \in DOMAIN rows : rows'[j].attempts >= rows[j].attempts]_vars

\* C20, amended: attempts decreases in no step but the update of POST
\* /jobs/:id/retry, which sets it to 0.
RetryResets(j) ==
    \E c \in Clients :
       /\ client[c].pc = "retryUpdate" /\ client[c].id = j
       /\ client'[c].pc = "retryRemove"

C20_AttemptsResetOnlyByRetry ==
    [][\A j \in DOMAIN rows :
          rows'[j].attempts < rows[j].attempts => RetryResets(j) /\ rows'[j].attempts = 0]_vars

C20_Witness ==
    \E c \in Clients, j \in DOMAIN rows :
       /\ client[c].pc = "retryRemove" /\ client[c].id = j
       /\ rows[j].attempts = 0
       /\ rows[j].status = "PENDING"
       /\ Count(j, "PROCESSING") >= 1

\* C21: exclusive index membership.  In every state each job id is a member of
\* at most one of waiting(Q), processing(Q), delayed(Q) and dlq(Q).
C21_ExclusiveIndex ==
    \A j \in DOMAIN rows :
       Cardinality({x \in {"waiting", "processing", "delayed", "dlq"} :
                       \/ x = "waiting" /\ j \in DOMAIN waiting
                       \/ x = "processing" /\ j \in processing
                       \/ x = "delayed" /\ j \in DOMAIN delayed
                       \/ x = "dlq" /\ InList(dlq, j)}) <= 1

C23_InitialPlacement ==
    [][\A c \in Clients :
          LET j == client'[c].id
              b == client'[c].body
              future == b.scheduledAt # Null /\ b.scheduledAt > now
          IN /\ (client[c].pc \in {"idle", "createInsert"}
                   /\ client'[c].pc \in {"createEnqueue", "createDelayed"}) =>
                   /\ rows'[j].status = (IF future THEN "SCHEDULED" ELSE "PENDING")
                   /\ client'[c].pc = (IF future THEN "createDelayed" ELSE "createEnqueue")
                   /\ j \notin DOMAIN waiting' /\ j \notin DOMAIN delayed'
             /\ (client[c].pc = "createEnqueue" /\ client'[c].res = "created") =>
                   /\ rows'[client[c].id].status = "PENDING"
                   /\ client[c].id \in DOMAIN waiting'
                   /\ client[c].id \notin DOMAIN delayed'
             /\ (client[c].pc = "createDelayed" /\ client'[c].res = "created") =>
                   /\ rows'[client[c].id].status = "SCHEDULED"
                   /\ client[c].id \in DOMAIN delayed'
                   /\ delayed'[client[c].id] = rows'[client[c].id].scheduledAt
                   /\ client[c].id \notin DOMAIN waiting']_vars

C23_Witness ==
    \E j, k \in DOMAIN rows :
       /\ \A c \in Clients : client[c].pc = "idle"
       /\ rows[j].status = "SCHEDULED" /\ j \in DOMAIN delayed /\ j \notin DOMAIN waiting
       /\ delayed[j] = rows[j].scheduledAt
       /\ rows[k].status = "PENDING" /\ rows[k].scheduledAt # Null
       /\ k \in DOMAIN waiting /\ k \notin DOMAIN delayed

\* C24: an ineligible claim is reconciled by ack only.  A lane whose
\* conditional claim matched no row takes no step that invokes the handler or
\* changes the row, the history, delayed(Q), dlq(Q) or the poison counter, and
\* when it is back at its poll loop the id is not in processing(Q).
C24_IneligibleClaimAckOnly ==
    [][\A l \in Lanes :
          (/\ lane[l].pc \in {"fail", "track", "poisonDel", "deadUpdate", "dlqSrem",
                              "dlqPush", "scheduleRetry", "failedUpdate", "failAck"}
           /\ lane[l].error = "RecordNotFound"
           /\ lane'[l] # lane[l]) =>
             /\ UNCHANGED <<rows, history, delayed, dlq, poison>>
             /\ lane'[l].pc # "handler"
             /\ lane'[l].pc = "poll" => lane[l].job \notin processing']_vars

\* C25: the failure decision.  After a handler failure of a job the lane has
\* claimed, handleFailure takes the DLQ branch exactly if trackFailure reported
\* poison or attempts >= maxRetries of the row; on that branch it returns with
\* the row DEAD, error set and no lock, the id in dlq(Q) and neither in
\* processing(Q) nor in delayed(Q); on the other branch scheduleRetry adds the
\* id to delayed(Q) at now + delay and handleFailure returns with the row
\* FAILED, error set and no lock, the id in delayed(Q) and neither in
\* processing(Q) nor in dlq(Q).
C25_FailureDecision ==
    [][\A l \in Lanes :
          LET j == lane[l].job
              failed == lane[l].pc \in {"track", "poisonDel", "deadUpdate", "dlqSrem", "dlqPush",
                                        "scheduleRetry", "failedUpdate", "failAck"}
                        /\ lane[l].error = "HandlerError"
              settled == /\ rows'[j].error = "HandlerError"
                         /\ rows'[j].lockedBy = Null /\ rows'[j].lockedAt = Null
                         /\ j \notin processing'
          IN failed =>
             /\ lane'[l].pc = "deadUpdate" =>
                   lane'[l].isPoisonPill \/ rows[j].attempts >= rows[j].maxRetries
             /\ lane'[l].pc = "scheduleRetry" =>
                   ~lane'[l].isPoisonPill /\ rows[j].attempts < rows[j].maxRetries
             /\ (lane[l].pc = "scheduleRetry" /\ lane'[l].pc = "failedUpdate") =>
                   \E jitter \in 0..(config.RETRY_BASE_DELAY_MS - 1) :
                      delayed'[j] = now + config.RETRY_BASE_DELAY_MS * Pow2(rows[j].attempts)
                                        + jitter
             /\ (lane[l].pc = "dlqPush" /\ lane'[l].pc = "poll") =>
                   /\ rows'[j].status = "DEAD" /\ settled
                   /\ InList(dlq', j) /\ j \notin DOMAIN delayed'
             /\ (lane[l].pc = "failAck" /\ lane'[l].pc = "poll") =>
                   /\ rows'[j].status = "FAILED" /\ settled
                   /\ j \in DOMAIN delayed' /\ ~InList(dlq', j)]_vars

\* C26: promotion drops jobs that are no longer eligible.  Promotion adds an
\* id to waiting(Q), with the priority of its row, and writes PENDING with
\* scheduledAt = null, only for a row whose status is PENDING, SCHEDULED or
\* FAILED when the write takes effect, also when a cancel interleaves with the
\* promotion; for any other row it changes neither waiting(Q) nor the row.
C26_PromotionDropsIneligible ==
    [][\A s \in Scheds :
          LET j == sched'[s].job
              k == sched[s].job
          IN /\ (sched[s].pc = "promoteLoop" /\ sched'[s].pc = "promoteUpdate") =>
                   /\ PromoteEligible(rows[j].status)
                   /\ waiting'[j] = calculateScore(rows[j].priority, now)
             /\ (sched[s].pc = "promoteUpdate" /\ sched'[s].pc # "promoteUpdate") =>
                   /\ PromoteEligible(rows[k].status)
                   /\ rows'[k].status = "PENDING" /\ rows'[k].scheduledAt = Null
             /\ (sched[s].pc = "promoteFind" /\ sched'[s].pc # "promoteFind") =>
                   \A i \in sched[s].jobs \ sched'[s].jobs : ~PromoteEligible(rows[i].status)]_vars

\* C27: reclaim acts only on expired leases.  The scheduler removes an id from
\* processing(Q), enqueues it and writes PENDING with no lock only for a row
\* that, at that write, is PROCESSING with now - lockedAt > visibilityTimeout;
\* and no step of the reclaim changes attempts.
C27_ReclaimOnlyExpired ==
    [][\A s \in Scheds :
          LET j == IF sched[s].pc = "reclaimLoop" THEN sched'[s].job ELSE sched[s].job
              expired == /\ rows[j].status = "PROCESSING"
                         /\ rows[j].lockedAt # Null
                         /\ now - rows[j].lockedAt > rows[j].visibilityTimeout
          IN (sched[s].pc \in {"reclaimLoop", "reclaimEnqueue", "reclaimUpdate"}
                /\ sched'[s] # sched[s]) =>
                /\ expired
                /\ rows'[j].attempts = rows[j].attempts
                /\ sched[s].pc = "reclaimUpdate" =>
                      /\ rows'[j].status = "PENDING"
                      /\ rows'[j].lockedBy = Null /\ rows'[j].lockedAt = Null]_vars

\* C28: several scheduler instances are safe.  With two schedulers running
\* promote and reclaim concurrently, no step of a reclaim removes from
\* processing(Q), or puts into waiting(Q), a job whose row is PROCESSING under
\* a lease that has not expired, and no two promotions hold one popped id.
C28_TwoSchedulersSafe ==
    /\ [][\A s \in Scheds :
             LET j == sched'[s].job IN
             (sched[s].pc \in {"reclaimLoop", "reclaimEnqueue"} /\ sched'[s] # sched[s]) =>
                ~ /\ rows[j].status = "PROCESSING"
                  /\ rows[j].lockedAt # Null
                  /\ ~TimedOut(now, rows[j].lockedAt, rows[j].visibilityTimeout)]_vars
    /\ [](\A s, t \in Scheds :
             (s # t /\ sched[s].pc \in {"promoteFind", "promoteLoop", "promoteUpdate"}
                    /\ sched[t].pc \in {"promoteFind", "promoteLoop", "promoteUpdate"})
                => sched[s].jobs \cap sched[t].jobs = {})

\* C29: an error inside the failure handler.  A lane whose handleFailure was
\* left by a failing call of the store removes the id from processing(Q); and
\* a row that this leaves PROCESSING, under a lease that expires within the
\* run, is eventually PENDING with its id in waiting(Q).
C29_FailureHandlerError ==
    /\ [][\A l \in Lanes :
             (lane[l].pc = "failAck" /\ lane'[l] # lane[l]) =>
                lane[l].job \notin processing']_vars
    /\ \A l \in Lanes : lane[l].pc = "failAck" ~> lane[l].pc = "poll"
    /\ \A j \in 1..MaxJobs :
          (/\ j \in DOMAIN rows
           /\ \E l \in Lanes : lane[l].pc = "failAck" /\ lane[l].job = j
           /\ rows[j].status = "PROCESSING"
           /\ rows[j].lockedAt # Null
           /\ rows[j].lockedAt + rows[j].visibilityTimeout < MaxFaultTime)
             ~> (j \in DOMAIN rows /\ rows[j].status = "PENDING" /\ j \in DOMAIN waiting)

\* C30: the processing set is eventually consistent with the durable row.  An
\* id that is in processing(Q) while its row is not PROCESSING is eventually
\* out of processing(Q).
C30_ProcessingEventuallyConsistent ==
    \A j \in 1..MaxJobs :
       (j \in DOMAIN rows /\ j \in processing /\ rows[j].status # "PROCESSING")
          ~> (j \notin processing)

\* C31: when no request, no lane and no scheduler tick is partway through, a
\* PROCESSING row has its id in processing(Q) and both lock fields set, a DEAD
\* row has its id in dlq(Q), a SCHEDULED row in delayed(Q), a PENDING row in
\* waiting(Q), and the lock fields of every row that is not PROCESSING are null.
C31_QuiescentConsistency ==
    LET Quiescent == /\ \A l \in Lanes : lane[l].pc = "poll"
                     /\ \A c \in Clients : client[c].pc = "idle"
                     /\ \A s \in Scheds : sched[s].pc = "idle"
        Locked(j) == rows[j].lockedBy # Null /\ rows[j].lockedAt # Null
        Unlocked(j) == rows[j].lockedBy = Null /\ rows[j].lockedAt = Null
    IN Quiescent =>
          \A j \in DOMAIN rows :
             /\ rows[j].status = "PROCESSING" => j \in processing /\ Locked(j)
             /\ rows[j].status = "DEAD" => InList(dlq, j)
             /\ rows[j].status = "SCHEDULED" => j \in DOMAIN delayed
             /\ rows[j].status = "PENDING" => j \in DOMAIN waiting
             /\ rows[j].status # "PROCESSING" => Unlocked(j)

\* C32: a store call that fails during a lane's poll iteration does not end
\* the lane nor any other: a lane has left its loop only if the worker is no
\* longer running or is draining.
C32_StoreErrorKeepsLane ==
    \A l \in Lanes : lane[l].pc \in {"stopped", "exited"} => ~Polling

\* C33: a store call that fails during a scheduler tick loses no due job:
\* every id that is due in delayed(Q) is eventually in waiting(Q), put there
\* by that tick or by a later one once the store is available again.
C33_StoreErrorKeepsDueJobs ==
    \A j \in 1..MaxJobs :
       (j \in DOMAIN rows /\ j \in DOMAIN delayed /\ delayed[j] <= now)
          ~> (j \in DOMAIN rows /\ j \in DOMAIN waiting)

\* C34: for base b and attempt a, scheduleRetry adds the id to delayed(Q) with
\* score now + d where b * 2^a <= d < b * 2^a + b, and no delay of attempt
\* a + 1 is smaller than d.
C34_BackoffBounds ==
    [][\A l \in Lanes :
          (lane[l].pc = "scheduleRetry" /\ lane'[l].pc = "failedUpdate") =>
             LET j == lane[l].job
                 a == lane[l].attempts
                 b == config.RETRY_BASE_DELAY_MS
                 d == delayed'[j] - now
             IN /\ j \in DOMAIN delayed'
                /\ b * 2 ^ a <= d /\ d < b * 2 ^ a + b
                /\ \A jitter \in 0..(b - 1) : BackoffDelay(a + 1, jitter) >= d]_vars

\* the second retry of a job is scheduled with the largest delay of a base of 2
C34_Witness ==
    \E l \in Lanes :
       /\ lane[l].pc = "failedUpdate" /\ lane[l].attempts = 2
       /\ config.RETRY_BASE_DELAY_MS = 2
       /\ lane[l].job \in DOMAIN delayed /\ delayed[lane[l].job] = now + 9

\* C35: a job that a lane has put into FAILED with a retry scheduled at an
\* instant is not claimed before that instant: no claim succeeds for an id
\* that is in delayed(Q) with a score in the future, once the lane that
\* scheduled the retry has written FAILED.
C35_NoDispatchBeforeBackoff ==
    [][\A l \in Lanes :
          (lane[l].pc = "claim" /\ lane'[l].pc = "history") =>
             LET j == lane[l].job
                 Written == \A k \in Lanes :
                               ~(lane[k].pc = "failedUpdate" /\ lane[k].job = j)
             IN ~(j \in DOMAIN delayed /\ delayed[j] > now /\ Written)]_vars

\* C36: an enqueue of an id that is already in waiting(Q) leaves one entry
\* for it, with the score of this enqueue, and every other entry as it was: the
\* id now comes after the ids of its priority that were enqueued before this
\* instant; a dequeue that returns the id leaves no entry of it behind.
C36_EnqueueIdempotent ==
    [][/\ \A c \in Clients :
             (/\ client[c].pc \in {"createEnqueue", "retryEnqueue"}
              /\ client'[c].pc = "idle"
              /\ client[c].id \in DOMAIN waiting) =>
                LET j == client[c].id IN
                /\ DOMAIN waiting' = DOMAIN waiting
                /\ waiting'[j] = calculateScore(rows[j].priority, now)
                /\ \A k \in DOMAIN waiting \ {j} :
                      /\ waiting'[k] = waiting[k]
                      /\ (waiting[k].w = waiting'[j].w /\ waiting[k].t < now)
                            => Before(waiting', k, j)
       /\ \A l \in Lanes :
             (lane[l].pc = "poll" /\ lane'[l].pc = "claim")
                => lane'[l].job \notin DOMAIN waiting']_vars

\* a retry has enqueued, at instant 1, an id that was in waiting(Q) since its
\* creation (cancelled once, its cancel not yet at its ZREM, and never
\* dequeued): it is behind an id of its priority that was enqueued before
C36_Witness ==
    \E j, k \in DOMAIN waiting :
       /\ j < k /\ waiting[j].w = waiting[k].w
       /\ waiting[k].t = 0 /\ waiting[j].t = 1 /\ Before(waiting, k, j)
       /\ j \notin processing /\ j \notin DOMAIN failures
       /\ \A l \in Lanes : lane[l].job # j
       /\ Len(history[j]) = 3 /\ history[j][2].status = "CANCELLED"
       /\ history[j][3].message = "Manual retry initiated"
       /\ \E c, e \in Clients :
             /\ client[c].pc = "cancelRemove" /\ client[c].id = j
             /\ client[e].pc = "idle" /\ client[e].res = "ok"

\* C37: moveToDLQ is one step for the other clients of the coordination
\* store: the step that removes the id from processing(Q) also appends it to
\* dlq(Q), so that no state shows the id in neither.
C37_MoveToDLQAtomic ==
    [][\A l \in Lanes :
          (lane[l].pc = "dlqSrem" /\ lane'[l].pc # "dlqSrem") =>
             /\ InList(dlq', lane[l].job)
             /\ lane[l].job \notin processing']_vars

\* C38: a handler runs only under a successful claim.  The claim of a lane
\* succeeds only on a row that is PENDING or FAILED, and sets PROCESSING,
\* lockedBy to this worker, lockedAt to the instant of the claim and attempts
\* to attempts + 1 in one update; every invocation of a handler comes after
\* one increment of attempts of its own: the attempts of a job are the
\* invocations of its handler plus the claims whose invocation is still to come.
C38_HandlerUnderClaim ==
    [][\A l \in Lanes :
          LET j == lane[l].job IN
          /\ (lane[l].pc = "claim" /\ lane'[l].pc = "history") =>
                /\ rows[j].status \in {"PENDING", "FAILED"}
                /\ rows'[j].status = "PROCESSING"
                /\ rows'[j].lockedBy = workerId(l)
                /\ rows'[j].lockedAt = lane[l].startTime
                /\ rows'[j].attempts = rows[j].attempts + 1
          /\ (lane[l].pc = "history" /\ lane'[l].pc = "handler") =>
                rows'[j].attempts =
                   Cardinality({i \in 1..Len(history'[j]) :
                                   history'[j][i].status = "PROCESSING"})
                   + Cardinality({k \in Lanes : lane'[k].pc = "history"
                                                /\ lane'[k].job = j})]_vars

\* the handler of a job runs for the second time, under the claim of its lane
C38_Witness ==
    \E l \in Lanes :
       /\ lane[l].pc = "handler"
       /\ rows[lane[l].job].status = "PROCESSING"
       /\ rows[lane[l].job].lockedBy = workerId(l)
       /\ rows[lane[l].job].attempts = 2

\* C39: only the lease holder finalizes.  A lane writes COMPLETED, FAILED or
\* DEAD only on a row whose lockedBy names its worker, and it removes an id
\* from processing(Q) only if the row is not locked by another worker.
C39_OnlyLeaseHolderFinalizes ==
    [][\A l \in Lanes :
          LET j == lane[l].job IN
          /\ (lane[l].pc \in {"complete", "deadUpdate", "failedUpdate"} /\ rows' # rows)
                => rows[j].lockedBy = workerId(l)
          /\ (lane[l].pc \in {"ack", "failAck", "dlqSrem"} /\ processing' # processing)
                => ~(/\ rows[j].status = "PROCESSING"
                     /\ rows[j].lockedBy # Null
                     /\ rows[j].lockedBy # workerId(l))]_vars

\* C40: no id occurs twice in dlq(Q).
C40_NoDuplicateInDLQ ==
    \A i, k \in 1..Len(dlq) : dlq[i] = dlq[k] => i = k
====
